---- MODULE Spec2Model ----
(***************************************************************************)
(* The session/progress controller of frontend/script.js: the global      *)
(* state (currentPlan, currentSession, progressData), the four event      *)
(* handlers and the DOM state they drive.  An async handler is two steps:  *)
(* the part that runs up to its `await fetch(...)` and the part that runs  *)
(* when the response arrives.  Requests in flight are a bag, because the   *)
(* script keeps no record of them and nothing stops a handler from being   *)
(* entered again while an earlier call of it is suspended.                 *)
(*                                                                         *)
(* A click reaches its listener only while the button is not `disabled`   *)
(* (lines 47-49 register the listeners on the buttons); the loading        *)
(* overlay is a style change (line 346) and stops no event.  The buttons'  *)
(* initial `disabled` attributes come from the page markup, which the      *)
(* script does not set, so Init leaves them open.                          *)
(*                                                                         *)
(* Time is counted in half minutes, so that Math.round in                 *)
(* endLearningSession has something to round.  Date.now() is an input:     *)
(* each call returns a value no earlier than the call before it.  Scores   *)
(* are integers and averageScore is kept as the                            *)
(* exact fraction sum/length in lowest terms (the script divides doubles). *)
(* Service responses follow the three response shapes of the endpoints;    *)
(* a rejected fetch takes the same catch path as a non-ok status.          *)
(* The 3 s timer of showStatus only removes a CSS class and is left out.   *)
(***************************************************************************)
EXTENDS Integers, Sequences, FiniteSets, Bags, TLC

VARIABLES
    currentPlan,      \* script.js:2
    currentSession,   \* script.js:3
    progressData,     \* script.js:4-11
    loadingOverlay,   \* loadingOverlay.style.display
    startSessionBtn,  \* startSessionBtn.disabled
    takeTestBtn,      \* takeTestBtn.disabled
    endSessionBtn,    \* endSessionBtn.disabled
    statusMessage,    \* text and type last given to showStatus
    sessionStatus,    \* sessionStatus.textContent
    inFlight,         \* bag of the fetch calls awaiting their response
    now,              \* the latest reading of Date.now(), in half minutes
    scoresInSession,  \* history: scores pushed since currentSession was last assigned
    sessionUser       \* history: user_id of the request whose response set currentSession

vars == <<currentPlan, currentSession, progressData, loadingOverlay,
          startSessionBtn, takeTestBtn, endSessionBtn, statusMessage,
          sessionStatus, inFlight, now, scoresInSession, sessionUser>>

controller == <<currentPlan, currentSession, progressData>>
buttons == <<startSessionBtn, takeTestBtn, endSessionBtn>>

---------------------------------------------------------------------------
(* Bounds *)
MaxInFlight == 2   \* requests awaiting a response at one time
MaxTests == 2      \* take-test requests issued in a run
MaxTime == 1       \* last clock reading

---------------------------------------------------------------------------
(* Values *)
Null == [null |-> TRUE]

\* texts of the request field, as sequences of characters
Inputs == {<<>>, <<" ", " ">>, <<" ", "p", " ">>}

Plans ==
    { [title |-> "Python Programming Mastery", timeline |-> "3 months",
       lessons |-> 10, goals |-> <<"Master the subject", "Build practical skills">>,
       user_id |-> "u1"],
      [title |-> "JavaScript Development", timeline |-> "6 weeks",
       lessons |-> 8, goals |-> <<"Master the subject", "Build practical skills">>,
       user_id |-> "u2"] }

SessionIds == {"s1"}

\* `lessons` of a start-session response: the week's three lessons
LessonLists ==
    { <<"Introduction to Variables", "Control Structures", "Functions and Modules">> }

Scores == {60, 70, 85}

\* what a fetch resolves to: the status and, when ok, the JSON body
Failure == [ok |-> FALSE]
PlanResponses == {Failure} \cup {[ok |-> TRUE, plan |-> p] : p \in Plans}
SessionResponses ==
    {Failure} \cup
    {[ok |-> TRUE, session |-> [id |-> i, lessons |-> l]] : i \in SessionIds, l \in LessonLists}
TestResponses == {Failure} \cup {[ok |-> TRUE, score |-> sc] : sc \in Scores}

---------------------------------------------------------------------------
(* Pure helpers *)

RECURSIVE trimStart(_)
trimStart(s) ==
    IF s # <<>> /\ Head(s) = " " THEN trimStart(Tail(s)) ELSE s

RECURSIVE trimEnd(_)
trimEnd(s) ==
    IF s # <<>> /\ s[Len(s)] = " " THEN trimEnd(SubSeq(s, 1, Len(s) - 1)) ELSE s

\* trim forgotten: the raw field value is used
trimOmitted(s) == s

trim(s) == trimEnd(trimStart(s))

RECURSIVE Sum(_)
Sum(s) == IF s = <<>> THEN 0 ELSE Head(s) + Sum(Tail(s))

RECURSIVE Gcd(_, _)
Gcd(a, b) == IF b = 0 THEN a ELSE Gcd(b, a % b)

\* a / b as an exact fraction in lowest terms, b > 0, a >= 0
Quotient(a, b) == [num |-> a \div Gcd(a, b), den |-> b \div Gcd(a, b)]

MathRoundHalves(n) == (n + 1) \div 2

\* the first threshold compared with > instead of >=
generateRecommendationsStrict(score) ==
    IF score > 85
    THEN <<"Excellent performance! Consider advanced topics",
           "Start building portfolio projects">>
    ELSE IF score >= 70
    THEN <<"Good progress! Continue with current pace",
           "Focus on areas where you scored lower">>
    ELSE <<"Review fundamental concepts",
           "Practice more with coding exercises">>

generateRecommendations(score) ==
    IF score >= 85
    THEN <<"Excellent performance! Consider advanced topics",
           "Start building portfolio projects">>
    ELSE IF score >= 70
    THEN <<"Good progress! Continue with current pace",
           "Focus on areas where you scored lower">>
    ELSE <<"Review fundamental concepts",
           "Practice more with coding exercises">>

showLoading(show) == loadingOverlay' = IF show THEN "flex" ELSE "none"

showStatus(message, type) == statusMessage' = [text |-> message, type |-> type]

\* a call of Date.now(): no earlier than the call before it
DateNow(t) == t \in now..MaxTime /\ now' = t

Request(url, body) == [url |-> url, body |-> body]

\* how many requests to url await their response
RECURSIVE CountOf(_, _)
CountOf(url, rs) ==
    IF rs = {} THEN 0
    ELSE LET r == CHOOSE x \in rs : TRUE
         IN (IF r.url = url THEN CopiesIn(r, inFlight) ELSE 0) + CountOf(url, rs \ {r})

Outstanding(url) == CountOf(url, BagToSet(inFlight))

fetch(url, body) ==
    /\ BagCardinality(inFlight) < MaxInFlight
    /\ inFlight' = inFlight (+) SetToBag({Request(url, body)})

Respond(r) ==
    /\ BagIn(r, inFlight)
    /\ inFlight' = inFlight (-) SetToBag({r})

---------------------------------------------------------------------------
Init ==
    /\ currentPlan = Null
    /\ currentSession = Null
    /\ progressData = [lessonsCompleted |-> 0,
                       averageScore |-> [num |-> 0, den |-> 1],
                       timeSpent |-> 0,
                       currentWeek |-> 1,
                       weeklyScores |-> <<>>,
                       recommendations |-> <<>>]
    /\ loadingOverlay = "none"
    /\ startSessionBtn \in BOOLEAN
    /\ takeTestBtn \in BOOLEAN
    /\ endSessionBtn \in BOOLEAN
    /\ statusMessage = [text |-> "Welcome to AI Learning Planner!", type |-> "info"]
    /\ sessionStatus = [text |-> "", value |-> 0]
    /\ inFlight = EmptyBag
    /\ now = 0
    /\ scoresInSession = 0
    /\ sessionUser = "none"

---------------------------------------------------------------------------
(* handleCreatePlan, up to the await: the form's submit event *)
handleCreatePlan(value) ==
    /\ UNCHANGED <<controller, buttons, sessionStatus, now, scoresInSession, sessionUser>>
    /\ LET userRequest == trim(value) IN
       IF userRequest = <<>>
       THEN /\ showStatus("Please enter a learning request", "error")
            /\ UNCHANGED <<loadingOverlay, inFlight>>
       ELSE /\ showLoading(TRUE)
            /\ fetch("/api/create-plan", [userRequest |-> userRequest])
            /\ UNCHANGED statusMessage

\* the plan stored only when there is none yet
handleCreatePlanResumeKeepsFirst(r, response) ==
    /\ r.url = "/api/create-plan"
    /\ UNCHANGED <<currentSession, progressData, buttons, sessionStatus,
                   now, scoresInSession, sessionUser>>
    /\ Respond(r)
    /\ IF response.ok
       THEN /\ currentPlan' = IF currentPlan = Null THEN response.plan ELSE currentPlan
            /\ showStatus("Learning plan created successfully!", "success")
       ELSE /\ showStatus("Error creating learning plan: Failed to create learning plan",
                          "error")
            /\ UNCHANGED currentPlan
    /\ showLoading(FALSE)

(* handleCreatePlan, from the response on (createLearningPlan included) *)
handleCreatePlanResume(r, response) ==
    /\ r.url = "/api/create-plan"
    /\ UNCHANGED <<currentSession, progressData, buttons, sessionStatus,
                   now, scoresInSession, sessionUser>>
    /\ Respond(r)
    /\ IF response.ok
       THEN /\ currentPlan' = response.plan
            /\ showStatus("Learning plan created successfully!", "success")
       ELSE /\ showStatus("Error creating learning plan: Failed to create learning plan",
                          "error")
            /\ UNCHANGED currentPlan
    /\ showLoading(FALSE)

\* the guard of lines 126-129 dropped and the plan read with `?.`
startLearningSessionUnguarded ==
    /\ ~startSessionBtn
    /\ UNCHANGED <<controller, buttons, statusMessage, sessionStatus, now,
                   scoresInSession, sessionUser>>
    /\ showLoading(TRUE)
    /\ fetch("/api/start-session",
             [user_id |-> IF currentPlan = Null THEN "undefined" ELSE currentPlan.user_id])

(* startLearningSession, up to the await: a click on startSessionBtn *)
startLearningSession ==
    /\ ~startSessionBtn
    /\ UNCHANGED <<controller, buttons, sessionStatus, now, scoresInSession, sessionUser>>
    /\ IF currentPlan = Null
       THEN /\ showStatus("Please create a learning plan first", "error")
            /\ UNCHANGED <<loadingOverlay, inFlight>>
       ELSE /\ showLoading(TRUE)
            /\ fetch("/api/start-session", [user_id |-> currentPlan.user_id])
            /\ UNCHANGED statusMessage

(* startLearningSession, from the response on *)
startLearningSessionResume(r, response) ==
    /\ r.url = "/api/start-session"
    /\ UNCHANGED <<currentPlan, progressData>>
    /\ Respond(r)
    /\ IF response.ok
       THEN /\ \E t \in 0..MaxTime :
                 /\ DateNow(t)
                 /\ currentSession' = [id |-> response.session.id,
                                       startTime |-> t,
                                       lessons |-> response.session.lessons]
            /\ sessionStatus' = [text |-> "Learning session started! Working on lessons",
                                 value |-> Len(response.session.lessons)]
            /\ startSessionBtn' = TRUE
            /\ takeTestBtn' = FALSE
            /\ endSessionBtn' = FALSE
            /\ showStatus("Learning session started!", "success")
            /\ scoresInSession' = 0
            /\ sessionUser' = r.body.user_id
       ELSE /\ showStatus("Error starting session: Failed to start learning session",
                          "error")
            /\ UNCHANGED <<currentSession, sessionStatus, buttons, scoresInSession,
                           sessionUser, now>>
    /\ showLoading(FALSE)

\* the guard of lines 169-172 testing currentPlan, as startLearningSession does
takeWeeklyTestPlanGuard ==
    /\ ~takeTestBtn
    /\ UNCHANGED <<controller, buttons, sessionStatus, now, scoresInSession, sessionUser>>
    /\ IF currentPlan = Null
       THEN /\ showStatus("Please start a learning session first", "error")
            /\ UNCHANGED <<loadingOverlay, inFlight>>
       ELSE /\ Len(progressData.weeklyScores) + Outstanding("/api/take-test") < MaxTests
            /\ showLoading(TRUE)
            /\ fetch("/api/take-test", [user_id |-> currentPlan.user_id])
            /\ UNCHANGED statusMessage

\* the user id read from the request that started the session, not from currentPlan
takeWeeklyTestSessionUser ==
    /\ ~takeTestBtn
    /\ UNCHANGED <<controller, buttons, sessionStatus, now, scoresInSession, sessionUser>>
    /\ IF currentSession = Null
       THEN /\ showStatus("Please start a learning session first", "error")
            /\ UNCHANGED <<loadingOverlay, inFlight>>
       ELSE /\ Len(progressData.weeklyScores) + Outstanding("/api/take-test") < MaxTests
            /\ showLoading(TRUE)
            /\ fetch("/api/take-test", [user_id |-> sessionUser])
            /\ UNCHANGED statusMessage

(* takeWeeklyTest, up to the await: a click on takeTestBtn *)
takeWeeklyTest ==
    /\ ~takeTestBtn
    /\ UNCHANGED <<controller, buttons, sessionStatus, now, scoresInSession, sessionUser>>
    /\ IF currentSession = Null
       THEN /\ showStatus("Please start a learning session first", "error")
            /\ UNCHANGED <<loadingOverlay, inFlight>>
       ELSE /\ Len(progressData.weeklyScores) + Outstanding("/api/take-test") < MaxTests
            /\ showLoading(TRUE)
            /\ fetch("/api/take-test", [user_id |-> currentPlan.user_id])
            /\ UNCHANGED statusMessage

\* line 196 without the 30 minutes of the test
UpdateProgressLessonTimeOnly(score) ==
    LET scores == Append(progressData.weeklyScores, score)
        n == Len(currentSession.lessons)
    IN [lessonsCompleted |-> progressData.lessonsCompleted + n,
        averageScore |-> Quotient(Sum(scores), Len(scores)),
        timeSpent |-> progressData.timeSpent + 45 * n,
        currentWeek |-> progressData.currentWeek + 1,
        weeklyScores |-> scores,
        recommendations |-> generateRecommendations(score)]

(* lines 194-203 with a session to read the lessons of *)
UpdateProgress(score) ==
    LET scores == Append(progressData.weeklyScores, score)
        n == Len(currentSession.lessons)
    IN [lessonsCompleted |-> progressData.lessonsCompleted + n,
        averageScore |-> Quotient(Sum(scores), Len(scores)),
        timeSpent |-> progressData.timeSpent + 45 * n + 30,
        currentWeek |-> progressData.currentWeek + 1,
        weeklyScores |-> scores,
        recommendations |-> generateRecommendations(score)]

\* line 209 forgotten: the take-test button stays enabled after a test
takeWeeklyTestResumeButtonKept(r, response) ==
    /\ r.url = "/api/take-test"
    /\ UNCHANGED <<currentPlan, currentSession, startSessionBtn, endSessionBtn, now,
                   sessionUser>>
    /\ Respond(r)
    /\ IF ~response.ok
       THEN /\ showStatus("Error taking test: Failed to take test", "error")
            /\ UNCHANGED <<progressData, sessionStatus, takeTestBtn, scoresInSession>>
       ELSE IF currentSession = Null
       THEN /\ progressData' =
                 [progressData EXCEPT !.weeklyScores = Append(@, response.score)]
            /\ showStatus("Error taking test: Cannot read properties of null", "error")
            /\ scoresInSession' = scoresInSession + 1
            /\ UNCHANGED <<sessionStatus, takeTestBtn>>
       ELSE /\ progressData' = UpdateProgress(response.score)
            /\ sessionStatus' = [text |-> "Weekly test completed! Score",
                                 value |-> response.score]
            /\ UNCHANGED takeTestBtn
            /\ showStatus("Test completed! Score", "success")
            /\ scoresInSession' = scoresInSession + 1
    /\ showLoading(FALSE)

(* takeWeeklyTest, from the response on.  With currentSession null by then,
   line 194 has pushed the score when line 195 throws on
   currentSession.lessons, and the catch block reports the error. *)
takeWeeklyTestResume(r, response) ==
    /\ r.url = "/api/take-test"
    /\ UNCHANGED <<currentPlan, currentSession, startSessionBtn, endSessionBtn, now,
                   sessionUser>>
    /\ Respond(r)
    /\ IF ~response.ok
       THEN /\ showStatus("Error taking test: Failed to take test", "error")
            /\ UNCHANGED <<progressData, sessionStatus, takeTestBtn, scoresInSession>>
       ELSE IF currentSession = Null
       THEN /\ progressData' =
                 [progressData EXCEPT !.weeklyScores = Append(@, response.score)]
            /\ showStatus("Error taking test: Cannot read properties of null", "error")
            /\ scoresInSession' = scoresInSession + 1
            /\ UNCHANGED <<sessionStatus, takeTestBtn>>
       ELSE /\ progressData' = UpdateProgress(response.score)
            /\ sessionStatus' = [text |-> "Weekly test completed! Score",
                                 value |-> response.score]
            /\ takeTestBtn' = TRUE
            /\ showStatus("Test completed! Score", "success")
            /\ scoresInSession' = scoresInSession + 1
    /\ showLoading(FALSE)

\* line 229 forgotten: the start button stays disabled
endLearningSessionStartStaysDisabled ==
    /\ ~endSessionBtn
    /\ UNCHANGED <<currentPlan, progressData, loadingOverlay, inFlight>>
    /\ IF currentSession = Null
       THEN /\ showStatus("No active session to end", "error")
            /\ UNCHANGED <<currentSession, sessionStatus, buttons, scoresInSession,
                           sessionUser, now>>
       ELSE /\ \E t \in 0..MaxTime :
                 /\ DateNow(t)
                 /\ sessionStatus' =
                      [text |-> "Session ended. Duration",
                       value |-> MathRoundHalves(t - currentSession.startTime)]
            /\ UNCHANGED startSessionBtn
            /\ takeTestBtn' = TRUE
            /\ endSessionBtn' = TRUE
            /\ currentSession' = Null
            /\ showStatus("Learning session ended", "info")
            /\ scoresInSession' = 0
            /\ sessionUser' = "none"

(* endLearningSession: a click on endSessionBtn; it awaits nothing *)
endLearningSession ==
    /\ ~endSessionBtn
    /\ UNCHANGED <<currentPlan, progressData, loadingOverlay, inFlight>>
    /\ IF currentSession = Null
       THEN /\ showStatus("No active session to end", "error")
            /\ UNCHANGED <<currentSession, sessionStatus, buttons, scoresInSession,
                           sessionUser, now>>
       ELSE /\ \E t \in 0..MaxTime :
                 /\ DateNow(t)
                 /\ sessionStatus' =
                      [text |-> "Session ended. Duration",
                       value |-> MathRoundHalves(t - currentSession.startTime)]
            /\ startSessionBtn' = FALSE
            /\ takeTestBtn' = TRUE
            /\ endSessionBtn' = TRUE
            /\ currentSession' = Null
            /\ showStatus("Learning session ended", "info")
            /\ scoresInSession' = 0
            /\ sessionUser' = "none"

Next ==
    \/ \E value \in Inputs : handleCreatePlan(value)
    \/ \E r \in BagToSet(inFlight), response \in PlanResponses :
          handleCreatePlanResume(r, response)
    \/ startLearningSession
    \/ \E r \in BagToSet(inFlight), response \in SessionResponses :
          startLearningSessionResume(r, response)
    \/ takeWeeklyTest
    \/ \E r \in BagToSet(inFlight), response \in TestResponses :
          takeWeeklyTestResume(r, response)
    \/ endLearningSession

Spec == Init /\ [][Next]_vars

(* the page as the session section describes it before the first click:
   start enabled, take-test and end-session disabled *)
InitialUI ==
    /\ Init
    /\ ~startSessionBtn
    /\ takeTestBtn
    /\ endSessionBtn

SpecInitialUI == InitialUI /\ [][Next]_vars

---------------------------------------------------------------------------
(* Properties *)

Urls == {"/api/create-plan", "/api/start-session", "/api/take-test"}

\* a step in which a handler ends by reporting an error: a guard rejection
\* or the catch block after a response; it issues no request
EndsInError ==
    /\ statusMessage'.type = "error"
    /\ BagCardinality(inFlight') <= BagCardinality(inFlight)

\* C1: a handler that ends in an error leaves currentPlan, currentSession
\* and every field of progressData as they were.
C1_NoPartialUpdateOnFailure ==
    [][EndsInError => UNCHANGED controller]_vars

\* C2: currentWeek is one more than the number of weekly scores; weeklyScores
\* grows only by appending the score of a successful test; and each such test
\* adds the session's lesson count to lessonsCompleted (L per score when every
\* session has L lessons).
C2_WeekAndLessonsFollowScores ==
    [][ /\ progressData'.currentWeek = 1 + Len(progressData'.weeklyScores)
        /\ progressData'.weeklyScores # progressData.weeklyScores =>
              /\ statusMessage'.text = "Test completed! Score"
              /\ \E sc \in Scores :
                    progressData'.weeklyScores = Append(progressData.weeklyScores, sc)
              /\ currentSession # Null
              /\ progressData'.lessonsCompleted =
                    progressData.lessonsCompleted + Len(currentSession.lessons) ]_vars

\* C3: averageScore is the mean of weeklyScores, 0 when there are none, and
\* lies in [0,100] for scores in [0,100].
C3_AverageIsMean ==
    LET scores == progressData.weeklyScores
        avg == progressData.averageScore
    IN /\ avg.den > 0
       /\ IF scores = <<>>
          THEN avg.num = 0
          ELSE avg.num * Len(scores) = Sum(scores) * avg.den
       /\ ((\A i \in 1..Len(scores) : scores[i] >= 0 /\ scores[i] <= 100)
              => avg.num >= 0 /\ avg.num <= 100 * avg.den)

\* C4: at most one score is recorded while one session is current.
C4_OneTestPerSession ==
    currentSession # Null => scoresInSession <= 1

\* C5: every successful start-session response is applied while
\* currentSession is none.
C5_StartAppliedOnlyWhenIdle ==
    [][ (\E r \in BagToSet(inFlight), response \in SessionResponses :
            response.ok /\ startLearningSessionResume(r, response))
        => currentSession = Null ]_vars

\* C6: no action has two requests outstanding, and a step that issues a
\* request changes no controller state.
C6_OneRequestPerAction ==
    [][ /\ \A url \in Urls : Outstanding(url)' <= 1
        /\ (BagCardinality(inFlight') > BagCardinality(inFlight)
              => UNCHANGED controller) ]_vars

IsBlank(value) == \A i \in 1..Len(value) : value[i] = " "

\* the empty and the whitespace-only texts of the field
BlankInputs == {value \in Inputs : IsBlank(value)}

\* C7: createPlan with an empty or whitespace-only request issues no request
\* and leaves currentPlan, currentSession and progressData unchanged.
C7_BlankRequestRejected ==
    [][ \/ UNCHANGED <<inFlight, controller>>
        \/ \A value \in BlankInputs : ~handleCreatePlan(value) ]_vars

C7_Witness ==
    /\ statusMessage.text = "Please enter a learning request"
    /\ currentPlan # Null
    /\ inFlight = EmptyBag

\* C8: startSession without a plan issues no request and leaves currentSession
\* none; and a session is current only if a plan is.
C8_NoSessionWithoutPlan ==
    [][ /\ (currentPlan = Null /\ startLearningSession)
              => (UNCHANGED <<inFlight, controller>> /\ currentSession' = Null)
        /\ (currentSession' # Null => currentPlan' # Null) ]_vars

C8_Witness ==
    /\ statusMessage.text = "Please create a learning plan first"
    /\ currentPlan = Null
    /\ currentSession = Null
    /\ inFlight = EmptyBag

\* C9: takeWeeklyTest and endSession without a session issue no request and
\* change none of currentSession, currentPlan, progressData.
C9_NoSessionRejected ==
    [][ (currentSession = Null /\ (takeWeeklyTest \/ endLearningSession))
          => UNCHANGED <<inFlight, controller>> ]_vars

C9_Witness ==
    /\ statusMessage.text = "Please start a learning session first"
    /\ currentSession = Null
    /\ currentPlan # Null
    /\ ~endSessionBtn

\* C10: endSession on a current session issues no request, clears
\* currentSession, enables start and disables take-test and end-session,
\* reports a duration >= 0, leaves currentPlan and progressData unchanged and
\* leaves the start guard passable; and a successful start-session response
\* makes a session current.
C10_EndSessionResets ==
    [][ /\ (currentSession # Null /\ endLearningSession)
              => /\ inFlight' = inFlight
                 /\ currentSession' = Null
                 /\ ~startSessionBtn' /\ takeTestBtn' /\ endSessionBtn'
                 /\ sessionStatus'.text = "Session ended. Duration"
                 /\ sessionStatus'.value >= 0
                 /\ UNCHANGED <<currentPlan, progressData>>
                 /\ currentPlan' # Null
        /\ (\E r \in BagToSet(inFlight), response \in SessionResponses :
                response.ok /\ startLearningSessionResume(r, response))
              => currentSession' # Null ]_vars

C10_Witness ==
    /\ statusMessage.text = "Learning session ended"
    /\ sessionStatus.value >= 1
    /\ currentSession = Null
    /\ ~startSessionBtn
    /\ progressData.weeklyScores # <<>>

\* a step in which a take-test response is applied and the handler ends in
\* success
TestSucceeds ==
    /\ statusMessage'.text = "Test completed! Score"
    /\ BagCardinality(inFlight') < BagCardinality(inFlight)

\* C11: lessonsCompleted, timeSpent and currentWeek never decrease; they
\* change only in a successful takeWeeklyTest step, by the session's lesson
\* count, by 45 per lesson plus 30, and by 1; createPlan, startSession and
\* endSession leave progressData unchanged.
C11_CountersAdvanceOnlyByTests ==
    [][ /\ progressData'.lessonsCompleted >= progressData.lessonsCompleted
        /\ progressData'.timeSpent >= progressData.timeSpent
        /\ progressData'.currentWeek >= progressData.currentWeek
        /\ ( \/ progressData'.lessonsCompleted # progressData.lessonsCompleted
             \/ progressData'.timeSpent # progressData.timeSpent
             \/ progressData'.currentWeek # progressData.currentWeek ) => TestSucceeds
        /\ TestSucceeds =>
              /\ currentSession # Null
              /\ progressData'.lessonsCompleted =
                    progressData.lessonsCompleted + Len(currentSession.lessons)
              /\ progressData'.timeSpent =
                    progressData.timeSpent + 45 * Len(currentSession.lessons) + 30
              /\ progressData'.currentWeek = progressData.currentWeek + 1
        /\ \/ UNCHANGED progressData
           \/ ~( \/ \E value \in Inputs : handleCreatePlan(value)
                 \/ \E r \in BagToSet(inFlight), response \in PlanResponses :
                       handleCreatePlanResume(r, response)
                 \/ startLearningSession
                 \/ \E r \in BagToSet(inFlight), response \in SessionResponses :
                       startLearningSessionResume(r, response)
                 \/ endLearningSession ) ]_vars

C11_Witness ==
    /\ statusMessage.text = "Test completed! Score"
    /\ progressData.lessonsCompleted = 6
    /\ progressData.timeSpent = 330
    /\ progressData.currentWeek = 3

\* C12: a create-plan response succeeds iff its status is a success; on
\* success currentPlan becomes the returned plan whatever it was before; on a
\* non-success status it keeps its value.
C12_PlanFollowsResponse ==
    [][ \A r \in BagToSet(inFlight), response \in PlanResponses :
          handleCreatePlanResume(r, response) =>
            IF response.ok
            THEN /\ currentPlan' = response.plan
                 /\ currentPlan'.title = response.plan.title
                 /\ statusMessage'.type = "success"
            ELSE /\ currentPlan' = currentPlan
                 /\ statusMessage'.type = "error" ]_vars

C12_Witness ==
    /\ statusMessage.text = "Learning plan created successfully!"
    /\ currentSession # Null
    /\ currentPlan.title = "JavaScript Development"
    /\ \E r \in BagToSet(inFlight) :
          r.url = "/api/take-test" /\ r.body.user_id = "u1"

\* the policy table of the recommendations
PolicyFor(score) ==
    IF score >= 85
    THEN <<"Excellent performance! Consider advanced topics",
           "Start building portfolio projects">>
    ELSE IF score >= 70 /\ score < 85
    THEN <<"Good progress! Continue with current pace",
           "Focus on areas where you scored lower">>
    ELSE <<"Review fundamental concepts",
           "Practice more with coding exercises">>

\* C13: after a successful takeWeeklyTest the recommendations are the two
\* entries for the range of the score just appended, whatever came before.
\* (progressData changes only in steps that also set the status, so the
\* status text marks the states that follow a successful test.)
C13_RecommendationsFollowLastScore ==
    statusMessage.text = "Test completed! Score" =>
        /\ progressData.weeklyScores # <<>>
        /\ progressData.recommendations =
              PolicyFor(progressData.weeklyScores[Len(progressData.weeklyScores)])
        /\ Len(progressData.recommendations) = 2

C13_Witness ==
    /\ statusMessage.text = "Test completed! Score"
    /\ progressData.weeklyScores = <<60, 85>>
    /\ progressData.recommendations[1] = "Excellent performance! Consider advanced topics"

\* C14: the loading overlay is visible in every state in which a request is
\* in flight.  (The claim's second half, that the overlay is hidden once
\* every request has completed, is the overlay being "none" whenever inFlight
\* is empty.)
C14_LoadingShownWhileInFlight ==
    inFlight # EmptyBag => loadingOverlay = "flex"

C14_HiddenWhenNothingInFlight ==
    inFlight = EmptyBag => loadingOverlay = "none"

\* C15: after a start-session call fails the start button is enabled,
\* currentSession is none and the start guard still passes; after a take-test
\* call fails the session is current and the take-test button enabled.
C15_FailedActionIsRetryable ==
    [][ \A r \in BagToSet(inFlight) :
          /\ startLearningSessionResume(r, Failure) =>
                (~startSessionBtn' /\ currentSession' = Null /\ currentPlan' # Null)
          /\ takeWeeklyTestResume(r, Failure) =>
                (currentSession' # Null /\ ~takeTestBtn') ]_vars

\* C16: from the initial UI, whenever no request is in flight, start is
\* enabled iff no session is current, end-session is enabled iff one is, and
\* take-test is enabled only with a current session that has no score yet.
C16_ButtonsAgreeWithSession ==
    inFlight = EmptyBag =>
        /\ (~startSessionBtn <=> currentSession = Null)
        /\ (~endSessionBtn <=> currentSession # Null)
        /\ (~takeTestBtn => (currentSession # Null /\ scoresInSession = 0))

C16_Witness ==
    /\ inFlight = EmptyBag
    /\ currentSession # Null
    /\ takeTestBtn
    /\ startSessionBtn
    /\ ~endSessionBtn
    /\ scoresInSession = 1
    /\ progressData.currentWeek = 3

\* C17: timeSpent is 45 per completed lesson plus 30 per recorded score.
C17_TimeSpentFollowsLessonsAndScores ==
    progressData.timeSpent =
        45 * progressData.lessonsCompleted + 30 * Len(progressData.weeklyScores)

\* C18 as stated: every take-test request issued while a session is current
\* carries the user id of the start-session request that created the session.
C18_TestCarriesSessionUser ==
    [][ (currentSession # Null /\ takeWeeklyTest)
          => inFlight' = inFlight (+)
                SetToBag({Request("/api/take-test", [user_id |-> sessionUser])}) ]_vars

\* C18: every take-test request carries currentPlan.user_id as it is when the
\* request is issued, which is the session's user id only while no plan with
\* another user id has been stored since the start-session request was issued.
C18_TestCarriesCurrentPlanUser ==
    [][ (currentSession # Null /\ takeWeeklyTest)
          => /\ currentPlan # Null
             /\ inFlight' = inFlight (+)
                   SetToBag({Request("/api/take-test", [user_id |-> currentPlan.user_id])})
             /\ UNCHANGED controller ]_vars

C18_Witness ==
    /\ currentSession # Null
    /\ sessionUser = "u1"
    /\ currentPlan.user_id = "u2"
    /\ statusMessage.text = "Learning plan created successfully!"
    /\ inFlight = SetToBag({Request("/api/take-test", [user_id |-> "u2"])})

====
